---- MODULE Spec2Model ----
(***************************************************************************)
(* Solar System Simulation (src/27. Solar System Project/main.cpp).        *)
(*                                                                         *)
(* The model follows main() from glfwInit to its return, one action per    *)
(* step of main, with processInput and scroll_callback as pure operators   *)
(* applied by the step that calls them.                                    *)
(*                                                                         *)
(* Fixed-point units (the program computes in float/double):               *)
(*   timeSpeed     in thousandths            (0.005f -> 5, 3.0f -> 3000)   *)
(*   Planet.speed  in twentieths             (0.8f -> 16, 0.1f -> 2)       *)
(*   time          in seconds                                              *)
(*   angles        in 1/20000 rad, the product of the three units above,   *)
(*                 so that deltaTime * timeSpeed * speed is exact;         *)
(*                 TWO_PI = 6.2831855 rad -> 125664                        *)
(*   zoom          in twentieths, the size of one scroll notch             *)
(*                 (1.0f -> 20, 0.95f -> 19, 2.0f -> 40)                   *)
(***************************************************************************)
EXTENDS Integers, Sequences, FiniteSets, TLC

VARIABLES
    pc,            \* position of main()
    held,          \* resources currently acquired (GLFW library, window, GL objects)
    exitCode,      \* <<>> while main runs, <<c>> once it has returned c
    shouldClose,   \* the window's close flag (glfwWindowShouldClose)
    keysDown,      \* keys glfwGetKey reports as GLFW_PRESS
    now,           \* glfwGetTime()
    lastTime,      \* main's lastTime
    deltaTime,     \* main's deltaTime of the current frame
    isPaused,      \* global isPaused
    spacePressed,  \* processInput's static spacePressed
    timeSpeed,     \* global timeSpeed
    zoom,          \* global zoom
    currentAngle,  \* planets[i].currentAngle
    drawn,         \* GL and swap calls issued by the latest frame, in order
    \* ---- observers: written by the steps, never read by the program ----
    frame,         \* frames started
    acqOrder,      \* resources in order of acquisition
    relOrder,      \* resources in order of release
    tick,          \* seconds that passed during the last glfwSwapBuffers/PollEvents
    spaceSample,   \* whether SPACE was down at the previous processInput
    toggles,       \* number of times the previous processInput flipped isPaused (0 or 1)
    resetEdge,     \* the reset key went down at the last processInput
    rSample,       \* whether the reset key was down at the previous processInput
    quitSeen,      \* processInput has observed ESCAPE
    trail,         \* steps of main executed since ESCAPE was observed
    speedChanged,  \* timeSpeed has been changed since start
    pauseCount,    \* number of times isPaused has flipped
    pausedTime,    \* seconds of frame time skipped while paused
    heldAngles,    \* currentAngle at the moment isPaused last became true
    refAngle,      \* phases of the reference run: never paused, fed only the non-paused frames
    lastScroll,    \* y-offsets delivered by the last glfwPollEvents
    scrollSum,     \* sum of all y-offsets delivered
    scrollUp,      \* every y-offset so far was >= 0
    scrollDown     \* every y-offset so far was <= 0

prog == <<pc, held, exitCode, shouldClose, keysDown, now, lastTime, deltaTime,
          isPaused, spacePressed, timeSpeed, zoom, currentAngle, drawn>>
obs  == <<frame, acqOrder, relOrder, tick, spaceSample, toggles, resetEdge, rSample,
          quitSeen, trail, speedChanged, pauseCount, pausedTime, heldAngles, refAngle,
          lastScroll, scrollSum, scrollUp, scrollDown>>
vars == <<prog, obs>>

-----------------------------------------------------------------------------
\* Program constants, in the units above.

TWO_PI == 125664
TimeSpeedInit == 5
TimeSpeedStep == 1
TimeSpeedMax == 3000
TimeSpeedMin == 1
ZoomInit == 20
ZoomMin == 19
ZoomMax == 40

\* Planet.speed of planets[1..7]: 0.8, 0.6, 0.4, 0.3, 0.2, 0.15, 0.1
PlanetSpeed == <<16, 12, 8, 6, 4, 3, 2>>
Planets == DOMAIN PlanetSpeed

\* The GL calls of one frame's render step, in order.
RenderCalls == <<"clear", "useProgram", "projection", "orbits", "sun", "planets">>

-----------------------------------------------------------------------------
\* Bounds of the model.

MaxFrames == 4        \* frames started in the bounded specifications
DtFrame == 1          \* an ordinary frame time, seconds
DtStall == 3200       \* a stalled frame (process stopped, window dragged), seconds
MaxScrollSum == 1000  \* |sum of y-offsets| explored by SpecScroll

-----------------------------------------------------------------------------
\* Helpers.

Min(a, b) == IF a < b THEN a ELSE b
Max(a, b) == IF a > b THEN a ELSE b

RECURSIVE SeqSum(_)
SeqSum(s) == IF s = <<>> THEN 0 ELSE Head(s) + SeqSum(Tail(s))

Reverse(s) == [i \in 1..Len(s) |-> s[Len(s) + 1 - i]]

IsPrefix(s, t) == Len(s) <= Len(t) /\ SubSeq(t, 1, Len(s)) = s

-----------------------------------------------------------------------------
\* The program's functions.

\* processInput, lines 288-289: ESCAPE sets the close flag.
QuitKey(flag, keys) == flag \/ "ESCAPE" \in keys

\* processInput, lines 291-303: the edge-triggered pause toggle.
PauseKeyLevel(paused, pressed, keys) ==
    IF "SPACE" \in keys
    THEN [isPaused |-> ~paused, spacePressed |-> TRUE]
    ELSE [isPaused |-> paused, spacePressed |-> FALSE]

PauseKey(paused, pressed, keys) ==
    IF "SPACE" \in keys
    THEN IF ~pressed
         THEN [isPaused |-> ~paused, spacePressed |-> TRUE]
         ELSE [isPaused |-> paused, spacePressed |-> pressed]
    ELSE [isPaused |-> paused, spacePressed |-> FALSE]

\* processInput, lines 305-308: the held speed keys.
SpeedKeysNoUpperClamp(ts, keys) ==
    LET up == IF "EQUAL" \in keys THEN ts + TimeSpeedStep ELSE ts
    IN  IF "MINUS" \in keys THEN Max(TimeSpeedMin, up - TimeSpeedStep) ELSE up

SpeedKeys(ts, keys) ==
    LET up == IF "EQUAL" \in keys THEN Min(TimeSpeedMax, ts + TimeSpeedStep) ELSE ts
    IN  IF "MINUS" \in keys THEN Max(TimeSpeedMin, up - TimeSpeedStep) ELSE up

\* scroll_callback, lines 311-315.
ScrollZoomNoLowerClamp(z, dy) == Min(ZoomMax, z - dy)

ScrollZoom(z, dy) == Max(ZoomMin, Min(ZoomMax, z - dy))

\* glfwPollEvents dispatching scroll_callback once per scroll event, in order.
RECURSIVE ScrollAll(_, _)
ScrollAll(z, dys) ==
    IF dys = <<>> THEN z ELSE ScrollAll(ScrollZoom(z, Head(dys)), Tail(dys))

\* main, lines 128-130: the frame's timing.
FrameTimingStale(frameTime, last) ==
    [deltaTime |-> frameTime - last, lastTime |-> last]

FrameTiming(frameTime, last) ==
    [deltaTime |-> frameTime - last, lastTime |-> frameTime]

\* main, lines 139-143: one planet's advance, with its single wrap.
AdvanceAngle(angle, dt, ts, speed) ==
    LET a == angle + dt * ts * speed
    IN  IF a >= TWO_PI THEN a - TWO_PI ELSE a

\* main, lines 135-146: the advance step.
AdvancePlanetsAlways(angles, paused, dt, ts) ==
    [i \in Planets |-> AdvanceAngle(angles[i], dt, ts, PlanetSpeed[i])]

AdvancePlanets(angles, paused, dt, ts) ==
    IF ~paused
    THEN [i \in Planets |-> AdvanceAngle(angles[i], dt, ts, PlanetSpeed[i])]
    ELSE angles

\* main, line 125: the loop condition.
LoopContinuesAlways(flag) == TRUE

LoopContinues(flag) == ~flag

\* glfwTerminate: destroys the remaining windows, then the library.
TerminateReleases(h) == SelectSeq(<<"window", "glfw">>, LAMBDA r : r \in h)

SeqSet(s) == {s[i] : i \in DOMAIN s}

-----------------------------------------------------------------------------
\* Observers.

Trail(step) == IF quitSeen THEN Append(trail, step) ELSE trail

Acquire(rs) ==
    /\ held' = held \cup SeqSet(rs)
    /\ acqOrder' = acqOrder \o rs

Return(code) ==
    /\ exitCode' = <<code>>
    /\ pc' = "done"

-----------------------------------------------------------------------------

ZeroAngles == [i \in Planets |-> 0]

Init ==
    /\ pc = "startup"
    /\ held = {}
    /\ exitCode = <<>>
    /\ shouldClose = FALSE
    /\ keysDown = {}
    /\ now = 0
    /\ lastTime = 0
    /\ deltaTime = 0
    /\ isPaused = FALSE
    /\ spacePressed = FALSE
    /\ timeSpeed = TimeSpeedInit
    /\ zoom = ZoomInit
    /\ currentAngle = ZeroAngles
    /\ drawn = <<>>
    /\ frame = 0
    /\ acqOrder = <<>>
    /\ relOrder = <<>>
    /\ tick = 0
    /\ spaceSample = FALSE
    /\ toggles = 0
    /\ resetEdge = FALSE
    /\ rSample = FALSE
    /\ quitSeen = FALSE
    /\ trail = <<>>
    /\ speedChanged = FALSE
    /\ pauseCount = 0
    /\ pausedTime = 0
    /\ heldAngles = ZeroAngles
    /\ refAngle = ZeroAngles
    /\ lastScroll = <<>>
    /\ scrollSum = 0
    /\ scrollUp = TRUE
    /\ scrollDown = TRUE

frameVars == <<shouldClose, keysDown, now, lastTime, deltaTime, isPaused, spacePressed,
               timeSpeed, zoom, currentAngle, drawn>>
frameObs  == <<frame, tick, spaceSample, toggles, resetEdge, rSample, quitSeen, trail,
               speedChanged, pauseCount, pausedTime, heldAngles, refAngle, lastScroll,
               scrollSum, scrollUp, scrollDown>>

\* main, lines 65-84: glfwInit, glfwCreateWindow and its failure return.
Startup ==
    /\ pc = "startup"
    /\ \E outcome \in {"ok", "noWindow", "noGlfw"} :
         CASE outcome = "ok" ->
                /\ Acquire(<<"glfw", "window">>)
                /\ pc' = "loadgl"
                /\ UNCHANGED <<exitCode, relOrder>>
           [] outcome = "noWindow" ->
                \* glfwInit succeeded, glfwCreateWindow returned NULL: glfwTerminate, return -1
                /\ held' = {}
                /\ acqOrder' = <<"glfw">>
                /\ relOrder' = <<"glfw">>
                /\ Return(-1)
           [] outcome = "noGlfw" ->
                \* glfwInit failed (its result is not tested), so no window either
                /\ Return(-1)
                /\ UNCHANGED <<held, acqOrder, relOrder>>
    /\ UNCHANGED <<frameVars, frameObs>>

\* main, lines 87-91: gladLoadGLLoader and its failure return.
LoadGL ==
    /\ pc = "loadgl"
    /\ \E ok \in BOOLEAN :
         IF ok THEN pc' = "shader" /\ UNCHANGED exitCode
               ELSE Return(-1)
    /\ UNCHANGED <<held, acqOrder, relOrder, frameVars, frameObs>>

\* main, lines 94-95, with createShaderProgram (260-284) and compileShader (243-258).
CreateShaderProgram ==
    /\ pc = "shader"
    /\ \E outcome \in {"ok", "compileError", "linkError"} :
         CASE outcome = "ok" ->
                \* glDeleteShader on both shader objects once the program has linked
                /\ held' = held \cup {"program"}
                /\ acqOrder' = acqOrder \o <<"vertexShader", "fragmentShader", "program">>
                /\ relOrder' = relOrder \o <<"vertexShader", "fragmentShader">>
                /\ pc' = "setup"
                /\ UNCHANGED exitCode
           [] outcome = "compileError" ->
                \* both shader objects are created before either result is tested
                /\ Acquire(<<"vertexShader", "fragmentShader">>)
                /\ Return(-1)
                /\ UNCHANGED relOrder
           [] outcome = "linkError" ->
                /\ Acquire(<<"vertexShader", "fragmentShader", "program">>)
                /\ Return(-1)
                /\ UNCHANGED relOrder
    /\ UNCHANGED <<frameVars, frameObs>>

initObs == <<frame, tick, spaceSample, toggles, resetEdge, rSample, quitSeen, trail,
             speedChanged, pauseCount, pausedTime, heldAngles, refAngle, lastScroll,
             scrollSum, scrollUp, scrollDown>>

\* main, lines 98-122: uniform locations, the two circle VAO/VBO pairs, the planet
\* table and the first reading of the clock.
Setup ==
    /\ pc = "setup"
    /\ Acquire(<<"filledVAO", "filledVBO", "orbitVAO", "orbitVBO">>)
    /\ currentAngle' = ZeroAngles
    /\ lastTime' = now
    /\ pc' = "loop"
    /\ UNCHANGED <<exitCode, relOrder, shouldClose, keysDown, now, deltaTime, isPaused,
                   spacePressed, timeSpeed, zoom, drawn, initObs>>

\* main, line 125: the loop condition. A bounded specification starts at most
\* MaxFrames frames.
LoopTest(bounded) ==
    /\ pc = "loop"
    /\ IF LoopContinues(shouldClose)
       THEN /\ bounded => frame < MaxFrames
            /\ pc' = "timing"
            /\ frame' = IF bounded THEN frame + 1 ELSE frame
       ELSE /\ pc' = "cleanup"
            /\ frame' = frame
    /\ trail' = Trail("LoopTest")
    /\ UNCHANGED <<held, exitCode, frameVars, acqOrder, relOrder, tick, spaceSample,
                   toggles, resetEdge, rSample, quitSeen, speedChanged, pauseCount,
                   pausedTime, heldAngles, refAngle, lastScroll, scrollSum, scrollUp,
                   scrollDown>>

\* main, lines 128-130.
Timing ==
    /\ pc = "timing"
    /\ LET t == FrameTiming(now, lastTime)
       IN  /\ deltaTime' = t.deltaTime
           /\ lastTime' = t.lastTime
    /\ pc' = "input"
    /\ trail' = Trail("Timing")
    /\ UNCHANGED <<held, exitCode, shouldClose, keysDown, now, isPaused, spacePressed,
                   timeSpeed, zoom, currentAngle, drawn, frame, acqOrder,
                   relOrder, tick, spaceSample, toggles, resetEdge, rSample, quitSeen,
                   speedChanged, pauseCount, pausedTime, heldAngles, refAngle,
                   lastScroll, scrollSum, scrollUp, scrollDown>>

\* main, line 133: processInput (lines 286-309).
ProcessInput ==
    /\ pc = "input"
    /\ LET p == PauseKey(isPaused, spacePressed, keysDown)
           ts == SpeedKeys(timeSpeed, keysDown)
       IN  /\ shouldClose' = QuitKey(shouldClose, keysDown)
           /\ isPaused' = p.isPaused
           /\ spacePressed' = p.spacePressed
           /\ timeSpeed' = ts
           /\ toggles' = IF p.isPaused # isPaused THEN 1 ELSE 0
           /\ pauseCount' = IF p.isPaused # isPaused THEN pauseCount + 1 ELSE pauseCount
           /\ heldAngles' = IF p.isPaused /\ ~isPaused THEN currentAngle ELSE heldAngles
           /\ speedChanged' = (speedChanged \/ ts # timeSpeed)
    /\ spaceSample' = ("SPACE" \in keysDown)
    /\ rSample' = ("R" \in keysDown)
    /\ resetEdge' = ("R" \in keysDown /\ ~rSample)
    /\ quitSeen' = (quitSeen \/ "ESCAPE" \in keysDown)
    /\ trail' = IF quitSeen THEN Append(trail, "ProcessInput") ELSE <<>>
    /\ pc' = "advance"
    /\ UNCHANGED <<held, exitCode, keysDown, now, lastTime, deltaTime, zoom, currentAngle,
                   drawn, frame, acqOrder, relOrder, tick, pausedTime,
                   refAngle, lastScroll, scrollSum, scrollUp, scrollDown>>

\* main, lines 135-146.
Advance ==
    /\ pc = "advance"
    /\ currentAngle' = AdvancePlanets(currentAngle, isPaused, deltaTime, timeSpeed)
    /\ refAngle' = IF isPaused THEN refAngle
                   ELSE [i \in Planets |->
                           AdvanceAngle(refAngle[i], tick, TimeSpeedInit, PlanetSpeed[i])]
    /\ pausedTime' = IF isPaused THEN pausedTime + tick ELSE pausedTime
    /\ pc' = "render"
    /\ trail' = Trail("Advance")
    /\ UNCHANGED <<held, exitCode, shouldClose, keysDown, now, lastTime, deltaTime,
                   isPaused, spacePressed, timeSpeed, zoom, drawn, frame,
                   acqOrder, relOrder, tick, spaceSample, toggles, resetEdge, rSample,
                   quitSeen, speedChanged, pauseCount, heldAngles, lastScroll,
                   scrollSum, scrollUp, scrollDown>>

\* main, lines 149-188: clear, projection from zoom, orbits, sun, planets.
Render ==
    /\ pc = "render"
    /\ drawn' = RenderCalls
    /\ pc' = "swap"
    /\ trail' = Trail("Render")
    /\ UNCHANGED <<held, exitCode, shouldClose, keysDown, now, lastTime, deltaTime,
                   isPaused, spacePressed, timeSpeed, zoom, currentAngle,
                   frame, acqOrder, relOrder, tick, spaceSample, toggles, resetEdge,
                   rSample, quitSeen, speedChanged, pauseCount, pausedTime, heldAngles,
                   refAngle, lastScroll, scrollSum, scrollUp, scrollDown>>

\* main, lines 191-192: glfwSwapBuffers, then glfwPollEvents, which updates the key
\* states, dispatches scroll_callback for each scroll event and may see the close
\* button. d seconds pass on the clock meanwhile.
SwapPoll(KeySamples, DtSet, ScrollSeqs, CloseSet) ==
    /\ pc = "swap"
    /\ drawn' = Append(drawn, "swapBuffers")
    /\ \E keys \in KeySamples : keysDown' = keys
    /\ \E d \in DtSet :
         /\ now + d >= 0
         /\ now' = now + d
         /\ tick' = d
    /\ \E dys \in ScrollSeqs :
         /\ scrollSum + SeqSum(dys) <= MaxScrollSum
         /\ scrollSum + SeqSum(dys) >= -MaxScrollSum
         /\ zoom' = ScrollAll(zoom, dys)
         /\ lastScroll' = dys
         /\ scrollSum' = scrollSum + SeqSum(dys)
         /\ scrollUp' = (scrollUp /\ \A i \in DOMAIN dys : dys[i] >= 0)
         /\ scrollDown' = (scrollDown /\ \A i \in DOMAIN dys : dys[i] <= 0)
    /\ \E close \in CloseSet : shouldClose' = (shouldClose \/ close)
    /\ pc' = "loop"
    /\ trail' = Trail("SwapPoll")
    /\ UNCHANGED <<held, exitCode, lastTime, deltaTime, isPaused, spacePressed,
                   timeSpeed, currentAngle, frame, acqOrder, relOrder, spaceSample,
                   toggles, resetEdge, rSample, quitSeen, speedChanged, pauseCount,
                   pausedTime, heldAngles, refAngle>>

\* main, lines 196-203: the de-allocation, glfwTerminate and return 0.
Cleanup ==
    /\ pc = "cleanup"
    /\ LET gl == <<"filledVAO", "filledVBO", "orbitVAO", "orbitVBO", "program">>
       IN  /\ relOrder' = relOrder \o gl \o TerminateReleases(held \ SeqSet(gl))
           /\ held' = (held \ SeqSet(gl)) \ {"window", "glfw"}
    /\ Return(0)
    /\ trail' = Trail("Cleanup")
    /\ UNCHANGED <<frameVars, frame, acqOrder, tick, spaceSample, toggles, resetEdge,
                   rSample, quitSeen, speedChanged, pauseCount, pausedTime, heldAngles,
                   refAngle, lastScroll, scrollSum, scrollUp, scrollDown>>

-----------------------------------------------------------------------------
\* Inputs of the specifications.

\* Key states after a poll.
KeySamples == {{}, {"SPACE"}, {"ESCAPE"}, {"R"}, {"EQUAL"}}
SpeedSamples == SUBSET {"EQUAL", "MINUS"}

\* Scroll events of one poll.
NotchSeqs == {<<>>, <<1>>, <<-1>>}
WheelSeqs == {<<>>, <<1>>, <<-1>>, <<1, 1>>, <<500>>, <<-500>>, <<1001, -1>>, <<-1001, 1>>}

Next ==
    \/ Startup
    \/ LoadGL
    \/ CreateShaderProgram
    \/ Setup
    \/ LoopTest(TRUE)
    \/ Timing
    \/ ProcessInput
    \/ Advance
    \/ Render
    \/ SwapPoll(KeySamples, {DtFrame, DtStall}, NotchSeqs, BOOLEAN)
    \/ Cleanup

Spec == Init /\ [][Next]_vars

\* The clock may step backwards between two frames.
NextJitter ==
    \/ Startup
    \/ LoadGL
    \/ CreateShaderProgram
    \/ Setup
    \/ LoopTest(TRUE)
    \/ Timing
    \/ ProcessInput
    \/ Advance
    \/ Render
    \/ SwapPoll({{}, {"SPACE"}}, {-DtFrame, DtFrame}, {<<>>}, BOOLEAN)
    \/ Cleanup

SpecJitter == Init /\ [][NextJitter]_vars

\* Any number of frames with the speed keys; the clock reading does not change.
NextSpeed ==
    \/ Startup
    \/ LoadGL
    \/ CreateShaderProgram
    \/ Setup
    \/ LoopTest(FALSE)
    \/ Timing
    \/ ProcessInput
    \/ Advance
    \/ Render
    \/ SwapPoll(SpeedSamples, {0}, {<<>>}, BOOLEAN)
    \/ Cleanup

SpecSpeed == Init /\ [][NextSpeed]_vars

\* Any number of frames with scroll events; the clock reading does not change.
NextScroll ==
    \/ Startup
    \/ LoadGL
    \/ CreateShaderProgram
    \/ Setup
    \/ LoopTest(FALSE)
    \/ Timing
    \/ ProcessInput
    \/ Advance
    \/ Render
    \/ SwapPoll({{}}, {0}, WheelSeqs, BOOLEAN)
    \/ Cleanup

SpecScroll == Init /\ [][NextScroll]_vars

-----------------------------------------------------------------------------
\* Properties.

FrameCalls == Append(RenderCalls, "swapBuffers")

Clamp(x, lo, hi) == IF x < lo THEN lo ELSE IF x > hi THEN hi ELSE x

RECURSIVE ClampedScroll(_, _, _, _)
ClampedScroll(z, dys, lo, hi) ==
    IF dys = <<>> THEN z
    ELSE ClampedScroll(Clamp(z - Head(dys), lo, hi), Tail(dys), lo, hi)

\* C1: after the advance step of every frame, for any non-negative deltaTime,
\* every planet's currentAngle is in [0, 2*pi).
C1_PhaseInRange ==
    pc = "render" => \A i \in Planets : 0 <= currentAngle[i] /\ currentAngle[i] < TWO_PI

\* C2 as stated: timeSpeed is always within [0.001, 1.0].
C2_SpeedWithinOne == 1 <= timeSpeed /\ timeSpeed <= 1000

\* C2, amended: timeSpeed is always within [0.001, 3.0], whatever speed keys are
\* held in whatever frames.
C2_SpeedRange == TimeSpeedMin <= timeSpeed /\ timeSpeed <= TimeSpeedMax

\* The speed-up key is held with timeSpeed at its upper clamp, processInput just run.
C2_Witness == pc = "advance" /\ "EQUAL" \in keysDown /\ timeSpeed = TimeSpeedMax

\* C3 as stated: scroll events summing to +1000 leave zoom at 0.1, and events
\* summing to -1000 leave it at 5.0.
C3_ZoomTenthToFive ==
    /\ scrollSum = 1000 => zoom = 2
    /\ scrollSum = -1000 => zoom = 100

\* C3, amended: each scroll event with y-offset dy sets zoom to
\* clamp(zoom - dy*0.05, 0.95, 2.0); from zoom 1.0, scroll events that are all
\* non-negative and sum to +1000 leave zoom at 0.95, and events that are all
\* non-positive and sum to -1000 leave zoom at 2.0.
C3_ZoomClamp ==
    /\ [][pc = "swap" => zoom' = ClampedScroll(zoom, lastScroll', 19, 40)]_vars
    /\ []((scrollUp /\ scrollSum = 1000) => zoom = 19)
    /\ []((scrollDown /\ scrollSum = -1000) => zoom = 40)

\* Non-negative scroll events summing to +1000 have just been delivered.
C3_Witness ==
    /\ pc = "loop" /\ lastScroll # <<>>
    /\ scrollUp /\ scrollSum = 1000 /\ zoom = ZoomMin

\* C4: while isPaused, no step changes any currentAngle, whatever deltaTime is, so
\* the angles held when the pause began stay; the paused frame still issues its
\* render calls and swaps, and its scroll events still set zoom.
C4_PauseHolds ==
    /\ [][isPaused => currentAngle' = currentAngle]_vars
    /\ [](isPaused => currentAngle = heldAngles)
    /\ [][(isPaused /\ pc = "advance") => pc' = "render"]_vars
    /\ [][(isPaused /\ pc = "render") => (pc' = "swap" /\ drawn' = RenderCalls)]_vars
    /\ [][(isPaused /\ pc = "swap") =>
            /\ drawn' = FrameCalls
            /\ zoom' = ClampedScroll(zoom, lastScroll', ZoomMin, ZoomMax)]_vars

\* Paused with non-zero angles through a stalled frame and a further frame, a
\* scroll event just delivered having changed zoom.
C4_Witness ==
    /\ pc = "loop" /\ isPaused
    /\ pausedTime > DtStall
    /\ currentAngle[1] > 0
    /\ lastScroll # <<>> /\ zoom # ZoomInit

\* C5: processInput flips isPaused exactly when SPACE is down and was up at the
\* previous processInput (the first frame of a run of held frames); no other step
\* flips it.
C5_EdgeTriggered ==
    /\ [][pc = "input" =>
            ((isPaused' # isPaused) <=> ("SPACE" \in keysDown /\ ~spaceSample))]_vars
    /\ [][pc # "input" => isPaused' = isPaused]_vars

\* SPACE held over two consecutive frames: the first flipped isPaused, the second
\* (just processed) did not.
C5_Witness ==
    /\ pc = "advance" /\ "SPACE" \in keysDown
    /\ toggles = 0 /\ pauseCount = 1 /\ isPaused

\* C6: once processInput has observed ESCAPE the close flag is set, the frame runs
\* its advance, render and swap steps, the next loop test leaves the loop without
\* starting a frame, and main releases its resources and returns 0.
C6_QuitCompletesFrame ==
    LET rest == <<"Advance", "Render", "SwapPoll", "LoopTest", "Cleanup">>
    IN  quitSeen =>
          /\ shouldClose
          /\ IsPrefix(trail, rest)
          /\ Len(trail) >= 3 => drawn = FrameCalls
          /\ pc = "done" => (trail = rest /\ exitCode = <<0>> /\ held = {})

\* main has returned after ESCAPE was observed.
C6_Witness == quitSeen /\ pc = "done"

\* C7: when main has returned, on any path, nothing is still acquired and the
\* releases happened once each, in reverse order of acquisition.
C7_ReleaseOnEveryExit ==
    pc = "done" => (held = {} /\ relOrder = Reverse(acqOrder))

\* C8: with timeSpeed never changed, the angles equal those of the reference run
\* that never pauses and is fed only the non-paused frames' time: paused time
\* adds nothing and resuming brings no catch-up.
C8_PauseCommutes == ~speedChanged => currentAngle = refAngle

\* Paused and resumed, time having passed while paused, the resumed frame just advanced.
C8_Witness ==
    /\ pc = "render" /\ ~isPaused /\ ~speedChanged
    /\ pauseCount >= 2 /\ pausedTime > 0
    /\ deltaTime > 0 /\ currentAngle[1] > 0

\* C9: the advance step of a frame whose deltaTime is negative does not end the
\* loop, lowers no currentAngle and leaves every currentAngle in [0, 2*pi).
C9_NegativeDtClamped ==
    [][(pc = "advance" /\ deltaTime < 0) =>
         /\ pc' = "render"
         /\ \A i \in Planets :
              /\ currentAngle'[i] >= currentAngle[i]
              /\ 0 <= currentAngle'[i] /\ currentAngle'[i] < TWO_PI]_vars

\* C10: when processInput has seen the reset key go down, all seven currentAngle
\* are 0.
C10_ResetZeroesPhases ==
    (pc = "advance" /\ resetEdge) => \A i \in Planets : currentAngle[i] = 0

====
